---- MODULE Spec2Model ----
(***************************************************************************)
(* Model of the exam classification / unique-exam registry service         *)
(* (src/server.js, first copy of the file, and the variant in              *)
(* src/unnamed/part_000).                                                  *)
(*                                                                         *)
(* The two MongoDB collections are sequences of documents in natural       *)
(* (insertion) order.  Every store primitive (updateOne with upsert, one   *)
(* operation of a bulkWrite, find, findOne) is atomic.                     *)
(*                                                                         *)
(* Spec      serves one request at a time: every handler is one action.    *)
(* SpecConc  lets the handlers that make several store accesses            *)
(*           (bulkWrite, the guide's two finds) interleave with others;    *)
(*           a handler with a single store access is atomic in both.       *)
(***************************************************************************)
EXTENDS Integers, Sequences, FiniteSets, TLC

\* ------------------------------------------------------------------ bounds
MaxRequests == 2
MaxBatch == 2

\* ------------------------------------------------------------------ values
Undef == "<undefined>"
Null == "<null>"

Names == {"Glucosa", "constructor"}
\* binary string order used by a sort on exam_name ('G' < 'c')
NameOrder == <<"Glucosa", "constructor">>
Tubes == {"Tapa Roja", "Tapa Lila"}
Texts == {"Ayuno"}
Codes == {"G01"}
Users == {"Ana"}
Procs == {1, 2}

\* property names every plain object inherits from Object.prototype
ObjectPrototypeKeys == {"constructor", "toString", "valueOf", "hasOwnProperty"}

SeqsUpTo(S, n) == UNION {[1..k -> S] : k \in 0..n}

\* JavaScript truthiness of the values used here
FalsyOnlyUndefined(v) == v = Undef
Falsy(v) == v \in {Undef, Null, ""}

\* a || b
OrElseKeepsFirst(a, b) == a
OrElse(a, b) == IF Falsy(a) THEN b ELSE a

\* BSON serialisation of a field value: undefined is written as null
Bson(v) == IF v = Undef THEN Null ELSE v

\* conn                   progress of connectToMongo: "nouri" (returned at once),
\*                        "pending" (awaiting client.connect), "connected", "failed"
\* examCollection         the handle is set (server.js:23, :37)
\* uniqueExamsCollection  the handle is set (server.js:24, :39)
\* classStore             documents of exam_classification, in natural order
\* registry               documents of unique_exams, in natural order
\* nreq                   number of requests that have arrived
\* req, resp              the request answered last and its response; resp.ops
\*                        counts the store operations the handler issued
\* inflight               per request slot, the handler suspended at an await
VARIABLES conn, examCollection, uniqueExamsCollection,
          classStore, registry, nreq, req, resp, inflight

vars == <<conn, examCollection, uniqueExamsCollection,
          classStore, registry, nreq, req, resp, inflight>>

stores == <<classStore, registry>>
handles == <<conn, examCollection, uniqueExamsCollection>>

\* ------------------------------------------------------------- responses
Reply(status, ops, body) == [status |-> status, ops |-> ops, body |-> body]

R503 == Reply(503, 0, <<>>)
R400 == Reply(400, 0, <<>>)
R404 == Reply(404, 1, <<>>)
R500(ops) == Reply(500, ops, <<>>)

\* `if (!collection) return 503`
NotReadyMissingCheck(handle) == FALSE
NotReady(handle) == ~handle

\* a call on the collection throws: the handle is undefined (TypeError) or
\* the driver reports a failure; either way the catch block answers 500
Throws(handle, fail) == ~handle \/ fail

\* number of store operations a throwing call has issued
ThrownOps(handle) == IF handle THEN 1 ELSE 0

\* ------------------------------------------------------- store primitives
Matches(store, name) == {i \in DOMAIN store : store[i].exam_name = name}

HasName(store, name) == Matches(store, name) # {}

FirstMatch(store, name) ==
    CHOOSE i \in Matches(store, name) : \A j \in Matches(store, name) : i <= j

NamesIn(store) == {store[i].exam_name : i \in DOMAIN store}

\* updateOne({exam_name}, {$set: {tube, instructions}}, {upsert: true})
UpdateOneSetAlwaysInsert(store, name, tube, instructions) ==
    Append(store, [exam_name |-> name, tube |-> Bson(tube),
                   instructions |-> Bson(instructions)])
UpdateOneSet(store, name, tube, instructions) ==
    IF HasName(store, name)
    THEN [store EXCEPT ![FirstMatch(store, name)] =
             [exam_name |-> name, tube |-> Bson(tube),
              instructions |-> Bson(instructions)]]
    ELSE Append(store, [exam_name |-> name, tube |-> Bson(tube),
                        instructions |-> Bson(instructions)])

\* the UpdateResult of that call
UpdateAck(store, name, tube, instructions) ==
    IF HasName(store, name)
    THEN [matchedCount |-> 1,
          modifiedCount |->
              IF store[FirstMatch(store, name)].tube = Bson(tube)
                 /\ store[FirstMatch(store, name)].instructions = Bson(instructions)
              THEN 0 ELSE 1,
          upsertedCount |-> 0]
    ELSE [matchedCount |-> 0, modifiedCount |-> 0, upsertedCount |-> 1]

\* ------------------------------------------------------------------ Init
Idle == [pc |-> "idle"]

\* what the database holds when the process starts: nothing, or records an
\* earlier run of the service left
Seeds ==
    {[classification |-> <<>>, exams |-> <<>>],
     [classification |-> <<[exam_name |-> "Glucosa", tube |-> "Tapa Roja",
                            instructions |-> ""]>>,
      exams |-> <<[exam_name |-> "constructor", exam_code |-> "N/A",
                   added_by |-> "Sistema", added_at |-> 0]>>]}

Init ==
    /\ conn \in {"pending", "nouri"}
    /\ examCollection = FALSE
    /\ uniqueExamsCollection = FALSE
    /\ \E seed \in Seeds :
          /\ classStore = seed.classification
          /\ registry = seed.exams
    /\ nreq = 0
    /\ req = [kind |-> "none"]
    /\ resp = Reply(0, 0, <<>>)
    /\ inflight = [p \in Procs |-> Idle]

\* ------------------------------------------------------------ connection
ConnectOk ==
    /\ conn = "pending"
    /\ conn' = "connected"
    /\ examCollection' = TRUE
    /\ uniqueExamsCollection' = TRUE
    /\ UNCHANGED <<classStore, registry, nreq, req, resp, inflight>>

ConnectFail ==
    /\ conn = "pending"
    /\ conn' = "failed"
    /\ UNCHANGED <<examCollection, uniqueExamsCollection,
                   classStore, registry, nreq, req, resp, inflight>>

\* a request arrives and is numbered
Arrive ==
    /\ nreq < MaxRequests
    /\ nreq' = nreq + 1

\* new Date() read while serving the request being numbered: a logical
\* clock that a later request always finds advanced
Now == nreq + 1

\* ------------------------------------------------ classification handlers
PostClassify(exam_name, tube, instructions) ==
    /\ Arrive
    /\ req' = [kind |-> "classify", exam_name |-> exam_name, tube |-> tube,
               instructions |-> instructions]
    /\ UNCHANGED <<handles, registry, inflight>>
    /\ IF NotReady(examCollection)
       THEN resp' = R503 /\ UNCHANGED classStore
       ELSE IF Falsy(exam_name) \/ Falsy(tube)
       THEN resp' = R400 /\ UNCHANGED classStore
       ELSE \E fail \in BOOLEAN :
            IF Throws(examCollection, fail)
            THEN resp' = R500(ThrownOps(examCollection)) /\ UNCHANGED classStore
            ELSE /\ classStore' = UpdateOneSet(classStore, exam_name, tube,
                                               OrElse(instructions, ""))
                 /\ resp' = Reply(200, 1, <<UpdateAck(classStore, exam_name, tube,
                                                      OrElse(instructions, ""))>>)

PostClassification(exam_name, tube, instructions) ==
    /\ Arrive
    /\ req' = [kind |-> "classification", exam_name |-> exam_name, tube |-> tube,
               instructions |-> instructions]
    /\ UNCHANGED <<handles, registry, inflight>>
    /\ IF NotReady(examCollection)
       THEN resp' = R503 /\ UNCHANGED classStore
       ELSE IF Falsy(exam_name)
       THEN resp' = R400 /\ UNCHANGED classStore
       ELSE \E fail \in BOOLEAN :
            IF Throws(examCollection, fail)
            THEN resp' = R500(ThrownOps(examCollection)) /\ UNCHANGED classStore
            ELSE /\ classStore' = UpdateOneSet(classStore, exam_name, tube, instructions)
                 /\ resp' = Reply(200, 1, <<UpdateAck(classStore, exam_name, tube,
                                                      instructions)>>)

GetClassification(examName) ==
    /\ Arrive
    /\ req' = [kind |-> "getOne", exam_name |-> examName]
    /\ UNCHANGED <<handles, classStore, registry, inflight>>
    /\ IF NotReady(examCollection)
       THEN resp' = R503
       ELSE \E fail \in BOOLEAN :
            IF Throws(examCollection, fail)
            THEN resp' = R500(ThrownOps(examCollection))
            ELSE IF HasName(classStore, examName)
            THEN resp' = Reply(200, 1, <<classStore[FirstMatch(classStore, examName)]>>)
            ELSE resp' = R404

GetAllClassifications ==
    /\ Arrive
    /\ req' = [kind |-> "getAll"]
    /\ UNCHANGED <<handles, classStore, registry, inflight>>
    /\ IF NotReady(examCollection)
       THEN resp' = R503
       ELSE \E fail \in BOOLEAN :
            IF Throws(examCollection, fail)
            THEN resp' = R500(ThrownOps(examCollection))
            ELSE resp' = Reply(200, 1, classStore)

\* ------------------------------------------------------ registry handlers
\* one updateOne of the bulk: {$setOnInsert: doc}, upsert: true
InsertIfAbsentOverwrite(reg, doc) ==
    IF HasName(reg, doc.exam_name)
    THEN [reg EXCEPT ![FirstMatch(reg, doc.exam_name)] = doc]
    ELSE Append(reg, doc)
InsertIfAbsentAlways(reg, doc) == Append(reg, doc)
InsertIfAbsent(reg, doc) ==
    IF HasName(reg, doc.exam_name) THEN reg ELSE Append(reg, doc)

\* contribution of one operation to result.upsertedCount
UpsertedCountsEvery(reg, doc) == 1
Upserted(reg, doc) == IF HasName(reg, doc.exam_name) THEN 0 ELSE 1

\* bulkWrite(bulkOps): ordered, one operation after the other
RECURSIVE BulkWrite(_, _)
BulkWrite(reg, ops) ==
    IF ops = <<>>
    THEN [registry |-> reg, upsertedCount |-> 0]
    ELSE LET r == BulkWrite(InsertIfAbsent(reg, Head(ops)), Tail(ops))
         IN  [registry |-> r.registry,
              upsertedCount |-> r.upsertedCount + Upserted(reg, Head(ops))]

IsNonEmptyArray(exams) == exams.shape = "array" /\ Len(exams.items) > 0

\* exams.map(...) of /api/exams/save-unique
SaveUniqueOpsNoDefault(names, added_by, now) ==
    [i \in DOMAIN names |->
        [exam_name |-> names[i], exam_code |-> "N/A",
         added_by |-> Bson(added_by), added_at |-> now]]
SaveUniqueOps(names, added_by, now) ==
    [i \in DOMAIN names |->
        [exam_name |-> names[i], exam_code |-> "N/A",
         added_by |-> OrElse(added_by, "Sistema"), added_at |-> now]]

\* exams.map(...) of /api/exams/unique; the documents carry no added_by
UniqueOps(entries, now) ==
    [i \in DOMAIN entries |->
        [exam_name |-> entries[i].exam_name,
         exam_code |-> OrElse(entries[i].exam_code, "N/A"),
         added_by |-> Undef, added_at |-> now]]

\* the whole batch goes to the store in one bulkWrite call
BulkReplyOneCallPerName(n, upserted) ==
    Reply(200, n, <<[processed |-> n, inserted |-> upserted]>>)
BulkReply(n, upserted) == Reply(200, 1, <<[processed |-> n, inserted |-> upserted]>>)

\* the part of both registration handlers after the bulkOps are built
RegisterExams(ops) ==
    \E fail \in BOOLEAN :
        IF Throws(uniqueExamsCollection, fail)
        THEN resp' = R500(ThrownOps(uniqueExamsCollection)) /\ UNCHANGED registry
        ELSE /\ registry' = BulkWrite(registry, ops).registry
             /\ resp' = BulkReply(Len(ops), BulkWrite(registry, ops).upsertedCount)

PostSaveUnique(exams, added_by) ==
    /\ Arrive
    /\ req' = [kind |-> "saveUnique", exams |-> exams, added_by |-> added_by]
    /\ UNCHANGED <<handles, classStore, inflight>>
    /\ IF NotReady(uniqueExamsCollection)
       THEN resp' = R503 /\ UNCHANGED registry
       ELSE IF ~IsNonEmptyArray(exams)
       THEN resp' = R400 /\ UNCHANGED registry
       ELSE RegisterExams(SaveUniqueOps(exams.items, added_by, Now))

PostUnique(exams) ==
    /\ Arrive
    /\ req' = [kind |-> "unique", exams |-> exams]
    /\ UNCHANGED <<handles, classStore, inflight>>
    /\ IF NotReady(uniqueExamsCollection)
       THEN resp' = R503 /\ UNCHANGED registry
       ELSE IF ~IsNonEmptyArray(exams)
       THEN resp' = R400 /\ UNCHANGED registry
       ELSE RegisterExams(UniqueOps(exams.items, Now))

\* find({}).project({_id: 0, exam_name: 1, exam_code: 1, added_by: 1, added_at: 1})
FindAll(reg) == reg

GetAllUnique ==
    /\ Arrive
    /\ req' = [kind |-> "allUnique"]
    /\ UNCHANGED <<handles, classStore, registry, inflight>>
    /\ IF NotReady(uniqueExamsCollection)
       THEN resp' = R503
       ELSE \E fail \in BOOLEAN :
            IF Throws(uniqueExamsCollection, fail)
            THEN resp' = R500(ThrownOps(uniqueExamsCollection))
            ELSE resp' = Reply(200, 1, FindAll(registry))

\* ------------------------------------------------------------------ guide
\* project({_id: 0, exam_name: 1, exam_code: 1})
ProjectNameCode(reg) ==
    [i \in DOMAIN reg |-> [exam_name |-> reg[i].exam_name, exam_code |-> reg[i].exam_code]]

LastMatch(store, name) ==
    CHOOSE i \in Matches(store, name) : \A j \in Matches(store, name) : j <= i

\* classificationMap[key], the map being a plain object built by reduce:
\* an own entry, else a member inherited from Object.prototype, else undefined
MapGet(classifications, key) ==
    IF HasName(classifications, key)
    THEN [truthy |-> TRUE,
          tube |-> classifications[LastMatch(classifications, key)].tube,
          instructions |-> classifications[LastMatch(classifications, key)].instructions]
    ELSE IF key \in ObjectPrototypeKeys
    THEN [truthy |-> TRUE, tube |-> Undef, instructions |-> Undef]
    ELSE [truthy |-> FALSE, tube |-> Undef, instructions |-> Undef]

GuideEntry(exam, classifications) ==
    [exam_name |-> exam.exam_name,
     exam_code |-> exam.exam_code,
     tube |-> IF MapGet(classifications, exam.exam_name).truthy
              THEN MapGet(classifications, exam.exam_name).tube
              ELSE "Pendiente",
     instructions |-> IF MapGet(classifications, exam.exam_name).truthy
                      THEN MapGet(classifications, exam.exam_name).instructions
                      ELSE ""]

GuideData(uniqueExams, classifications) ==
    [i \in DOMAIN uniqueExams |-> GuideEntry(uniqueExams[i], classifications)]

GuideNotReady == NotReady(uniqueExamsCollection) \/ NotReady(examCollection)

GetGuide ==
    /\ Arrive
    /\ req' = [kind |-> "guide"]
    /\ UNCHANGED <<handles, classStore, registry, inflight>>
    /\ IF GuideNotReady
       THEN resp' = R503
       ELSE \E fail1 \in BOOLEAN, fail2 \in BOOLEAN :
            IF Throws(uniqueExamsCollection, fail1)
            THEN resp' = R500(ThrownOps(uniqueExamsCollection))
            ELSE IF Throws(examCollection, fail2)
            THEN resp' = R500(1 + ThrownOps(examCollection))
            ELSE resp' = Reply(200, 2, GuideData(ProjectNameCode(registry), classStore))

\* ---------------------------------------------------------------- inputs
NameInputs == Names \cup {Undef, ""}
TubeInputs == Tubes \cup {Undef, ""}
TextInputs == Texts \cup {Undef}
UserInputs == Users \cup {Undef}
Entries == [exam_name : Names, exam_code : Codes \cup {Undef}]

Array(items) == [shape |-> "array", items |-> items]
NoArray == {[shape |-> "absent", items |-> <<>>], [shape |-> "object", items |-> <<>>]}
NameArrays == {Array(s) : s \in SeqsUpTo(Names, MaxBatch)} \cup NoArray
EntryArrays == {Array(s) : s \in SeqsUpTo(Entries, MaxBatch)} \cup NoArray

Next ==
    \/ ConnectOk
    \/ ConnectFail
    \/ \E n \in NameInputs, tb \in TubeInputs, ins \in TextInputs : PostClassify(n, tb, ins)
    \/ \E n \in NameInputs, tb \in TubeInputs, ins \in TextInputs :
          PostClassification(n, tb, ins)
    \/ \E n \in Names : GetClassification(n)
    \/ GetAllClassifications
    \/ \E ex \in NameArrays, by \in UserInputs : PostSaveUnique(ex, by)
    \/ \E ex \in EntryArrays : PostUnique(ex)
    \/ GetAllUnique
    \/ GetGuide

Spec == Init /\ [][Next]_vars

\* ------------------------------------------- interleaved multi-access handlers
\* A bulkWrite is one round trip, but the store applies its operations one
\* by one and other clients' operations may come in between; the guide
\* awaits its first find before it issues the second.
Bulk(request, ops) ==
    [pc |-> "bulk", request |-> request, ops |-> ops, n |-> Len(ops), upserted |-> 0]

BeginBulk(p, request, ops) ==
    IF Throws(uniqueExamsCollection, FALSE)
    THEN /\ req' = request
         /\ resp' = R500(ThrownOps(uniqueExamsCollection))
         /\ UNCHANGED inflight
    ELSE /\ inflight' = [inflight EXCEPT ![p] = Bulk(request, ops)]
         /\ UNCHANGED <<req, resp>>

\* request slots are interchangeable: a new request takes the first free one
FreeSlot(p) ==
    /\ inflight[p].pc = "idle"
    /\ \A q \in Procs : q < p => inflight[q].pc # "idle"

BeginSaveUnique(p, exams, added_by) ==
    /\ FreeSlot(p)
    /\ Arrive
    /\ UNCHANGED <<handles, classStore, registry>>
    /\ LET request == [kind |-> "saveUnique", exams |-> exams, added_by |-> added_by]
       IN  IF NotReady(uniqueExamsCollection)
           THEN req' = request /\ resp' = R503 /\ UNCHANGED inflight
           ELSE IF ~IsNonEmptyArray(exams)
           THEN req' = request /\ resp' = R400 /\ UNCHANGED inflight
           ELSE BeginBulk(p, request, SaveUniqueOps(exams.items, added_by, Now))

BeginUnique(p, exams) ==
    /\ FreeSlot(p)
    /\ Arrive
    /\ UNCHANGED <<handles, classStore, registry>>
    /\ LET request == [kind |-> "unique", exams |-> exams]
       IN  IF NotReady(uniqueExamsCollection)
           THEN req' = request /\ resp' = R503 /\ UNCHANGED inflight
           ELSE IF ~IsNonEmptyArray(exams)
           THEN req' = request /\ resp' = R400 /\ UNCHANGED inflight
           ELSE BeginBulk(p, request, UniqueOps(exams.items, Now))

\* the store applies the next operation of p's bulk, more remaining
BulkStep(p) ==
    /\ inflight[p].pc = "bulk"
    /\ Len(inflight[p].ops) > 1
    /\ registry' = InsertIfAbsent(registry, Head(inflight[p].ops))
    /\ inflight' = [inflight EXCEPT
                       ![p].ops = Tail(@),
                       ![p].upserted = @ + Upserted(registry, Head(inflight[p].ops))]
    /\ UNCHANGED <<handles, classStore, nreq, req, resp>>

\* the bulk fails part-way: what was applied stays, the caller gets 500
BulkFail(p) ==
    /\ inflight[p].pc = "bulk"
    /\ req' = inflight[p].request
    /\ resp' = R500(1)
    /\ inflight' = [inflight EXCEPT ![p] = Idle]
    /\ UNCHANGED <<handles, classStore, registry, nreq>>

\* the store applies the last operation and the handler answers
BulkEnd(p) ==
    /\ inflight[p].pc = "bulk"
    /\ Len(inflight[p].ops) = 1
    /\ registry' = InsertIfAbsent(registry, Head(inflight[p].ops))
    /\ req' = inflight[p].request
    /\ resp' = BulkReply(inflight[p].n,
                         inflight[p].upserted + Upserted(registry, Head(inflight[p].ops)))
    /\ inflight' = [inflight EXCEPT ![p] = Idle]
    /\ UNCHANGED <<handles, classStore, nreq>>

\* the guide up to its first find
BeginGuide(p) ==
    /\ FreeSlot(p)
    /\ Arrive
    /\ UNCHANGED <<handles, classStore, registry>>
    /\ IF GuideNotReady
       THEN req' = [kind |-> "guide"] /\ resp' = R503 /\ UNCHANGED inflight
       ELSE \E fail \in BOOLEAN :
            IF Throws(uniqueExamsCollection, fail)
            THEN /\ req' = [kind |-> "guide"]
                 /\ resp' = R500(ThrownOps(uniqueExamsCollection))
                 /\ UNCHANGED inflight
            ELSE /\ inflight' = [inflight EXCEPT ![p] =
                        [pc |-> "guide", uniqueExams |-> ProjectNameCode(registry)]]
                 /\ UNCHANGED <<req, resp>>

\* the guide from its second find to the response
EndGuide(p) ==
    /\ inflight[p].pc = "guide"
    /\ req' = [kind |-> "guide"]
    /\ inflight' = [inflight EXCEPT ![p] = Idle]
    /\ UNCHANGED <<handles, classStore, registry, nreq>>
    /\ \E fail \in BOOLEAN :
          IF Throws(examCollection, fail)
          THEN resp' = R500(1 + ThrownOps(examCollection))
          ELSE resp' = Reply(200, 2, GuideData(inflight[p].uniqueExams, classStore))

\* inputs of the interleaved specification: registrations of one or two
\* names that reach the store
Batches(S) == {<<a>> : a \in S} \cup {<<a, b>> : a \in S, b \in S}
ConcNameArrays == {Array(s) : s \in Batches(Names)}
ConcEntryArrays == {Array(s) : s \in Batches([exam_name : Names, exam_code : Codes])}

NextConc ==
    \/ ConnectOk
    \/ ConnectFail
    \/ \E n \in Names, tb \in Tubes, ins \in TextInputs : PostClassify(n, tb, ins)
    \/ \E n \in Names, ins \in TextInputs : PostClassification(n, Undef, ins)
    \/ \E n \in Names : GetClassification(n)
    \/ GetAllClassifications
    \/ GetAllUnique
    \/ \E p \in Procs, ex \in ConcNameArrays, by \in UserInputs : BeginSaveUnique(p, ex, by)
    \/ \E p \in Procs, ex \in ConcEntryArrays : BeginUnique(p, ex)
    \/ \E p \in Procs : BulkStep(p)
    \/ \E p \in Procs : BulkFail(p)
    \/ \E p \in Procs : BulkEnd(p)
    \/ \E p \in Procs : BeginGuide(p)
    \/ \E p \in Procs : EndGuide(p)

SpecConc == Init /\ [][NextConc]_vars

\* ================================================================ properties
HandlerStep == nreq' # nreq

ClassKinds == {"classify", "classification", "getOne", "getAll"}
RegistryKinds == {"saveUnique", "unique", "allUnique"}

\* the handle(s) the handler of a request of this kind needs are not all set
HandleUnset(kind) ==
    IF kind \in ClassKinds THEN ~examCollection
    ELSE IF kind \in RegistryKinds THEN ~uniqueExamsCollection
    ELSE ~examCollection \/ ~uniqueExamsCollection

\* C1: a request served while a handle its handler needs is unset (connection
\* pending, failed or never attempted) is answered 503 without any store
\* operation, and both stores are left as they were.
C1_ReadinessGating ==
    [][(HandlerStep /\ HandleUnset(req'.kind))
          => /\ resp'.status = 503
             /\ resp'.ops = 0
             /\ classStore' = classStore
             /\ registry' = registry]_vars

C1_Witness ==
    /\ conn = "failed"
    /\ req.kind = "guide"
    /\ resp.status = 503
    /\ registry # <<>>

\* C2: no step changes the added_by, added_at or exam_code of a registry
\* record that already exists: every exam_name present before the step still
\* has exactly its old record afterwards.
C2_WriteOnceAudit ==
    [][\A i \in DOMAIN registry :
          /\ HasName(registry', registry[i].exam_name)
          /\ \A j \in Matches(registry', registry[i].exam_name) :
                registry'[j] = registry[i]]_vars

C2_Witness ==
    /\ req.kind = "saveUnique"
    /\ req.added_by = "Ana"
    /\ resp.status = 200
    /\ \E k \in DOMAIN req.exams.items : req.exams.items[k] = "constructor"
    /\ \E i \in DOMAIN registry :
          /\ registry[i].exam_name = "constructor"
          /\ registry[i].added_by = "Sistema"
          /\ registry[i].added_at = 0

\* the exam names a registration request submits
BatchNames(r) ==
    IF r.kind = "saveUnique"
    THEN {r.exams.items[k] : k \in DOMAIN r.exams.items}
    ELSE {r.exams.items[k].exam_name : k \in DOMAIN r.exams.items}

\* C3: a registration of a non-empty batch that the store does not fail
\* answers 200, leaves exactly one registry record per name of the batch,
\* reports as inserted the number of distinct batch names that had no record
\* before, and as processed the batch length; the same batch again reports 0.
C3_BulkCounts ==
    [][(/\ HandlerStep
        /\ req'.kind \in {"saveUnique", "unique"}
        /\ uniqueExamsCollection
        /\ req'.exams.shape = "array"
        /\ Len(req'.exams.items) > 0
        /\ resp'.status # 500)
          => /\ resp'.status = 200
             /\ \A n \in BatchNames(req') : Cardinality(Matches(registry', n)) = 1
             /\ resp'.body[1].inserted =
                    Cardinality(BatchNames(req') \ NamesIn(registry))
             /\ resp'.body[1].processed = Len(req'.exams.items)
             /\ (req.kind = req'.kind /\ req = req' /\ resp.status = 200)
                    => resp'.body[1].inserted = 0]_vars

C3_Witness ==
    /\ req.kind = "saveUnique"
    /\ req.exams.items = <<"Glucosa", "Glucosa">>
    /\ resp.status = 200
    /\ resp.body[1].inserted = 1
    /\ resp.body[1].processed = 2
    /\ Cardinality(Matches(registry, "Glucosa")) = 1

\* C4: under every interleaving of requests, each store holds at most one
\* record per exam_name (each single upsert being atomic).
C4_KeyUniqueness ==
    /\ \A n \in NamesIn(classStore) : Cardinality(Matches(classStore, n)) = 1
    /\ \A n \in NamesIn(registry) : Cardinality(Matches(registry, n)) = 1

\* two registrations of the same absent name in flight together: the one that
\* arrived second inserted it, the first then found it present
C4_Witness ==
    /\ \A p \in Procs :
          /\ inflight[p].pc = "bulk"
          /\ inflight[p].request.kind = "saveUnique"
          /\ Len(inflight[p].ops) = 1
    /\ inflight[1].request.exams.items = <<"Glucosa", "Glucosa">>
    /\ inflight[1].upserted = 0
    /\ inflight[2].request.exams.items = <<"Glucosa", "constructor">>
    /\ inflight[2].upserted = 1
    /\ Cardinality(Matches(registry, "Glucosa")) = 1

\* C5: get-one answers 404 exactly when the name has no stored record, and a
\* get-one that directly follows a successful upsert of that name returns the
\* name, the tube and the instructions of that upsert ("" when omitted).
C5_ReadYourWrite ==
    [][(/\ HandlerStep
        /\ req'.kind = "getOne"
        /\ examCollection
        /\ resp'.status # 500)
          => /\ ~HasName(classStore, req'.exam_name) => resp'.status = 404
             /\ HasName(classStore, req'.exam_name) => resp'.status = 200
             /\ (/\ req.kind = "classify"
                 /\ resp.status = 200
                 /\ req.exam_name = req'.exam_name)
                    => /\ resp'.status = 200
                       /\ resp'.body =
                             <<[exam_name |-> req.exam_name,
                                tube |-> req.tube,
                                instructions |->
                                    IF req.instructions = Undef
                                    THEN "" ELSE req.instructions]>>]_vars

C5_Witness ==
    /\ req.kind = "getOne"
    /\ req.exam_name = "constructor"
    /\ resp.status = 200
    /\ resp.body = <<[exam_name |-> "constructor", tube |-> "Tapa Lila",
                      instructions |-> ""]>>

\* C6: an upsert that directly repeats a successful upsert with the same
\* values leaves the Classification Store as it was and acknowledges a match
\* of an existing record, not a creation.
C6_UpsertIdempotent ==
    [][(/\ HandlerStep
        /\ req.kind \in {"classify", "classification"}
        /\ resp.status = 200
        /\ req'.kind = req.kind
        /\ req' = req
        /\ resp'.status # 500)
          => /\ resp'.status = 200
             /\ classStore' = classStore
             /\ resp'.body[1].upsertedCount = 0
             /\ resp'.body[1].matchedCount = 1]_vars

C6_Witness ==
    /\ nreq = 2
    /\ req.kind = "classify"
    /\ req.exam_name = "constructor"
    /\ req.instructions = Undef
    /\ resp.status = 200
    /\ resp.body[1].matchedCount = 1
    /\ resp.body[1].modifiedCount = 0
    /\ resp.body[1].upsertedCount = 0

Rank(n) == CHOOSE k \in DOMAIN NameOrder : NameOrder[k] = n

\* C7: the registry listing holds every registry record and is sorted by
\* exam_name ascending.
C7_SortedListing ==
    (req.kind = "allUnique" /\ resp.status = 200)
        => /\ Len(resp.body) = Len(registry)
           /\ \A i \in DOMAIN registry : \E k \in DOMAIN resp.body : resp.body[k] = registry[i]
           /\ \A k \in DOMAIN resp.body : \A l \in DOMAIN resp.body :
                 k < l => Rank(resp.body[k].exam_name) <= Rank(resp.body[l].exam_name)

InvalidInput(r) ==
    \/ r.kind = "classify" /\ (r.exam_name \in {Undef, ""} \/ r.tube \in {Undef, ""})
    \/ r.kind = "classification" /\ r.exam_name \in {Undef, ""}
    \/ r.kind \in {"saveUnique", "unique"}
          /\ (r.exams.shape # "array" \/ Len(r.exams.items) = 0)

\* C9: with the store connected, an upsert without exam_name (or, on
\* /api/exams/classify, without tube) and a registration whose exams value is
\* absent, not an array or empty answer 400 and change neither store.
C9_InvalidInputNoMutation ==
    [][(HandlerStep /\ conn = "connected" /\ InvalidInput(req'))
          => /\ resp'.status = 400
             /\ resp'.ops = 0
             /\ classStore' = classStore
             /\ registry' = registry]_vars

C9_Witness ==
    /\ conn = "connected"
    /\ req.kind = "classify"
    /\ req.exam_name = "Glucosa"
    /\ req.tube = ""
    /\ resp.status = 400
    /\ classStore # <<>>

\* C10: the guide has one entry per registry record, in registry order, with
\* the record's exam_name and exam_code, the classification's tube and
\* instructions when the name is classified and "Pendiente" and "" otherwise.
C10_GuideJoin ==
    (req.kind = "guide" /\ resp.status = 200)
        => /\ Len(resp.body) = Len(registry)
           /\ \A i \in DOMAIN registry :
                 /\ resp.body[i].exam_name = registry[i].exam_name
                 /\ resp.body[i].exam_code = registry[i].exam_code
                 /\ IF HasName(classStore, registry[i].exam_name)
                    THEN \E c \in DOMAIN classStore :
                            /\ classStore[c].exam_name = registry[i].exam_name
                            /\ resp.body[i].tube = classStore[c].tube
                            /\ resp.body[i].instructions = classStore[c].instructions
                    ELSE /\ resp.body[i].tube = "Pendiente"
                         /\ resp.body[i].instructions = ""

\* C11 as stated: every handler, the guide included, issues at most one store
\* operation per request.
C11_AtMostOneStoreOp == resp.ops <= 1

\* C11 amended: every handler but the guide issues at most one store operation
\* (one read, one write or one bulk write) per request; the guide issues two
\* reads, the registry and then the classifications, and a guide that answers
\* 200 has issued both.
C11_StoreOpsPerRequest ==
    /\ req.kind # "guide" => resp.ops <= 1
    /\ req.kind = "guide" => resp.ops <= 2
    /\ (req.kind = "guide" /\ resp.status = 200) => resp.ops = 2

\* a registration was applied between the guide's two reads: the guide
\* answers with fewer entries than the registry holds when it answers
C11_Witness ==
    /\ req.kind = "guide"
    /\ resp.status = 200
    /\ resp.ops = 2
    /\ Len(resp.body) < Len(registry)

====
